---- MODULE Spec2Model ----
(***************************************************************************)
(* Differentiable mutables (pplib/nas/mutables/diff_mutable.py) and the    *)
(* trainer / mutator control flow around them                              *)
(* (pplib/trainer/nb201_balance_trainer.py, nb201_trainer.py).             *)
(*                                                                         *)
(* A candidate operation applied to an input is kept symbolic: the tensor  *)
(* prob * op(x) is the term [p |-> prob, op |-> name, x |-> input] and a   *)
(* Python sum(...) of tensors is the list of its terms, compared as a      *)
(* multiset.  A probability is an exact fraction <<num, den>>.             *)
(***************************************************************************)
EXTENDS Integers, Sequences, FiniteSets, TLC

\* ---------------------------------------------------------------- bounds
MaxCand == 3      \* most candidates / edges a mutable is built with
MaxLogit == 1     \* arch_param entries are k * ln 2 with k in 0..MaxLogit
MaxChosen == 2    \* longest list handed to fix_chosen
NumGroups == 2    \* groups of the supernet's search group
MaxOps == 3       \* most candidates of a supernet mutable
MaxSample == 2    \* largest num_sample of an evaluator
MaxPrepare == 3   \* prepare_from_supernet calls followed on one mutator
MaxArch == 2      \* most test architectures (config.test_size)
MaxEns == 2       \* largest ensemble of a predictor
MaxEval == 2      \* evaluate calls followed on one evaluator
MaxEpochs == 11   \* largest epochs argument of fit
MaxBatches == 2   \* most batches of a loader
MaxFit == 2       \* fit calls followed on one trainer
MaxData == 3      \* largest data_size of a load_dataset call

\* ------------------------------------------------------- Python values
\* Choice names.  "ab" is a name of more than one character; iterating a
\* Python str yields its characters, which are themselves possible names.
NameU == {"a", "b", "ab"}

Chars(s) == CASE s = "a" -> <<"a">>
              [] s = "b" -> <<"b">>
              [] s = "ab" -> <<"a", "b">>

Range(s) == {s[i] : i \in DOMAIN s}

\* the orders in which the names are laid out in a ModuleDict or a list
BaseOrder == <<"ab", "a", "b">>

Prefixes(n) == {SubSeq(BaseOrder, 1, k) : k \in 1..(IF n < 3 THEN n ELSE 3)}

\* the lists of at most n names, each in the order of BaseOrder
RECURSIVE SeqOfSet(_)
SeqOfSet(S) ==
    IF S = {} THEN <<>>
    ELSE LET o == BaseOrder
             k == CHOOSE i \in 1..3 : o[i] \in S /\ \A j \in 1..(i - 1) : o[j] \notin S
         IN <<o[k]>> \o SeqOfSet(S \ {o[k]})

NameLists(n) == {SeqOfSet(S) : S \in {T \in SUBSET NameU : Cardinality(T) <= n}}

\* None, a str, a list of str: the values `chosen` / `_chosen` can hold.
None == [t |-> "none", v |-> <<>>]

Str(s) == [t |-> "str", v |-> <<s>>]

List(l) == [t |-> "list", v |-> l]

\* what `for choice in value` yields
Iter(c) == IF c.t = "str" THEN Chars(c.v[1]) ELSE c.v

\* Python `name == value` for a str name
PyEq(name, c) == c.t = "str" /\ c.v[1] = name

\* the outcome of a call: a returned value or a raised exception
Ok(val) == [kind |-> "ok", exc |-> "", val |-> val]

Raise(exc) == [kind |-> "raise", exc |-> exc, val |-> <<>>]

One == <<1, 1>>

Term(p, name, x) == [p |-> p, op |-> name, x |-> x]

\* multiset of the terms of a sum
BagOf(s) == [e \in Range(s) |-> Cardinality({i \in DOMAIN s : s[i] = e})]

SameSum(s1, s2) == BagOf(s1) = BagOf(s2)

RECURSIVE GCD(_, _)
GCD(a, b) == IF b = 0 THEN a ELSE GCD(b, a % b)

Norm(q) == LET g == GCD(q[1], q[2]) IN <<q[1] \div g, q[2] \div g>>

RECURSIVE Pow2(_)
Pow2(k) == IF k = 0 THEN 1 ELSE 2 * Pow2(k - 1)

RECURSIVE SumSeq(_)
SumSeq(s) == IF s = <<>> THEN 0 ELSE Head(s) + SumSeq(Tail(s))

\* arch_param: None is NoParam, a tensor is its list of exponents k_i
\* (entry k_i * ln 2), so that exp(entry) = 2^k_i exactly.
NoParam == <<-1>>

\* F.softmax(arch_param, dim=-1): exp(a_i) / sum_j exp(a_j)
softmax(a) ==
    LET e == [i \in DOMAIN a |-> Pow2(a[i])]
    IN [i \in DOMAIN a |-> <<e[i], SumSeq(e)>>]

\* one-hot vector of length n with the one at position k
OneHot(n, k) == [i \in 1..n |-> IF i = k THEN One ELSE <<0, 1>>]

\* torch.argmax: first position of the largest entry
argmax(a) == CHOOSE i \in DOMAIN a :
    /\ \A j \in DOMAIN a : a[j] <= a[i]
    /\ \A j \in DOMAIN a : a[j] = a[i] => i <= j

\* zip(a, b): as long as the shorter
ZipLen(a, b) == IF Len(a) <= Len(b) THEN Len(a) ELSE Len(b)

\* ------------------------------------------------------ mutable state
VARIABLES
    cls,              \* the mutable's class
    built_ops,        \* the ModuleDict handed to __init__ (keys, in order)
    candidate_ops,    \* keys of _candidate_ops (DiffOP) / _edges (route)
    is_fixed,         \* _is_fixed
    chosen,           \* _chosen
    unfixed_choices,  \* _unfixed_choices (DiffChoiceRoute)
    with_arch_param,  \* _with_arch_param (DiffChoiceRoute)
    hard,             \* GumbelChoiceRoute.hard
    tau,              \* GumbelChoiceRoute.tau
    forward_args,     \* the arch_param bound by set_forward_args, or Unbound
    fixed_by,         \* the call in which is_fixed became True, or "none"
    call,             \* the last call: its name, arguments and pre-state
    ret               \* the last call's outcome

mvars == <<cls, built_ops, candidate_ops, is_fixed, chosen, unfixed_choices,
           with_arch_param, hard, tau, forward_args, fixed_by, call, ret>>

\* the supernet under a trainer
VARIABLES
    supernet,      \* mutable id -> [candidate_ops, is_fixed, current_choice]
    search_group,  \* mutator.search_group: group id -> list of mutable ids
    searching,     \* trainer.searching
    rand_subnet,   \* trainer.rand_subnet
    last_subnet,   \* the dict of the most recent mutator.set_subnet
    passes,        \* the model forwards of the last step, with their dicts
    flops,         \* the get_subnet_flops results of the last step
    t_call,        \* the last trainer step
    t_ret          \* what it returned

tvars == <<supernet, search_group, searching, rand_subnet, last_subnet,
           passes, flops, t_call, t_ret>>

\* NB301Evaluator over a NB201_Balance_Trainer and its mutator
VARIABLES
    mutator_supplied,  \* the trainer was built with a caller's mutator
    prepare_calls,     \* prepare_from_supernet calls on trainer.mutator
    first_sample_at,   \* prepare_calls at the first random_subnet/set_subnet
    num_sample,        \* evaluator.num_sample
    drawn_scores,      \* the proxy scores of the last rank computation
    true_indicator_list,
    generated_indicator_list,
    e_call             \* the last rank computation

evars == <<mutator_supplied, prepare_calls, first_sample_at, num_sample,
           drawn_scores, true_indicator_list, generated_indicator_list,
           e_call>>

\* ZeroCostPredictorEvaluator
VARIABLES
    zc_api,               \* the benchmark table: a score per architecture
    log_results_to_json,
    results,              \* self.results
    scores_json,          \* the content of <config.save>/scores.json
    z_pc,                 \* the position inside evaluate
    z_stages,             \* the stages the current evaluate has finished
    test_data,            \* [xtest, ytest] of the current evaluate
    test_pred,            \* test_pred of the current evaluate
    corr_input,           \* the arguments of utils.compute_scores
    z_calls,              \* completed evaluate calls
    z_ret                 \* what the last evaluate returned

zvars == <<zc_api, log_results_to_json, results, scores_json, z_pc, z_stages,
           test_data, test_pred, corr_input, z_calls, z_ret>>

\* NB201_Balance_Trainer.fit and its epochs
VARIABLES
    n_batches,      \* len(train_loader)
    max_epochs,     \* self.max_epochs, -1 before the first fit
    current_epoch,  \* self.current_epoch
    train_loss_,    \* self.train_loss_
    val_loss_,      \* self.val_loss_
    f_pc,           \* the position inside fit
    epoch_stages,   \* what the current epoch has done so far
    train_events,   \* the calls of the last _train, step by step
    checkpoints,    \* epochs at which the current fit saved a checkpoint
    sched_steps,    \* scheduler.step calls of the current fit
    fit_base,       \* len(train_loss_), len(val_loss_), current_epoch at the fit call
    fit_calls       \* fit calls so far

fvars == <<n_batches, max_epochs, current_epoch, train_loss_, val_loss_, f_pc,
           epoch_stages, train_events, checkpoints, sched_steps, fit_base,
           fit_calls>>

\* the subnet-selection policies of NB201_Balance_Trainer
VARIABLES
    p_call,   \* the last policy call, its policy and the subnets it drew
    p_ret     \* what it returned: a dict, a list of dicts or an exception

pvars == <<p_call, p_ret>>

\* NB301Evaluator.compute_rank_consistency over a trainer's metric_score
VARIABLES
    trainer_cls,  \* the class of evaluator.trainer
    loader_len,   \* len(dataloader)
    r_samples,    \* per finished iteration: the subnet dict and its genotype
    r_pc          \* the position inside compute_rank_consistency

rvars == <<trainer_cls, loader_len, r_samples, r_pc>>

\* ZeroCostPredictorEvaluator.load_dataset
VARIABLES
    own_arch,   \* the architecture self.search_space holds (its get_hash())
    l_call,     \* the last load_dataset call: load_labeled, data_size and
                \* the architecture sampled in each iteration
    l_ret       \* what it returned: xdata and ydata, or an exception

lvars == <<own_arch, l_call, l_ret>>

\* what the steps of one subsystem leave alone
rest_m == <<tvars, evars, zvars, fvars, pvars, rvars, lvars>>

rest_t == <<mvars, evars, zvars, fvars, pvars, rvars, lvars>>

rest_e == <<mvars, tvars, zvars, fvars, pvars, rvars, lvars>>

rest_z == <<mvars, tvars, evars, fvars, pvars, rvars, lvars>>

rest_f == <<mvars, tvars, evars, zvars, pvars, rvars, lvars>>
rest_p == <<mvars, tvars, evars, zvars, fvars, rvars, lvars>>

rest_r == <<mvars, zvars, fvars, pvars, lvars>>

rest_l == <<mvars, tvars, evars, zvars, fvars, pvars, rvars>>

Classes == {"DiffOP", "DynaDiffOP", "DiffChoiceRoute", "GumbelChoiceRoute"}

IsRoute(c) == c \in {"DiffChoiceRoute", "GumbelChoiceRoute"}

\* DynaDiffOP.__init__ default dyna_thresh = 0.3, as the fraction 3/10
dyna_thresh_num == 3

dyna_thresh_den == 10

Unbound == <<-2>>

\* the object, as the methods see it
Self == [cls |-> cls, ops |-> candidate_ops, is_fixed |-> is_fixed,
         chosen |-> chosen, unfixed_choices |-> unfixed_choices,
         with_arch_param |-> with_arch_param, hard |-> hard, tau |-> tau]

\* a method's effect: the object after the call and the outcome
Eff(self, r) == [self |-> self, ret |-> r]

\* ------------------------------------------------------------- DiffOP
\* the terms prob * module(x) of `for prob, module in zip(probs, ops)`
\* with prob > 0
Weighted(probs, ops, x) ==
    LET n == ZipLen(probs, ops)
        idx == SelectSeq([i \in 1..n |-> i], LAMBDA i : probs[i][1] > 0)
    IN [j \in DOMAIN idx |-> Term(Norm(probs[idx[j]]), ops[idx[j]], x)]

\* DiffMutable.compute_arch_probs
compute_arch_probs(a) == softmax(a)

\* forward_fixed that takes a missing _chosen for an empty list
Mut_DiffOP_forward_fixed(self, x) ==
    LET it == IF self.chosen.t = "none" THEN <<>> ELSE Iter(self.chosen)
    IN IF \E i \in DOMAIN it : it[i] \notin Range(self.ops)
       THEN Raise("KeyError")
       ELSE Ok([i \in DOMAIN it |-> Term(One, it[i], x)])

\* DiffOP.forward_fixed: sum(self._candidate_ops[choice](x)
\*                           for choice in self._chosen)
DiffOP_forward_fixed(self, x) ==
    IF self.chosen.t = "none" THEN Raise("TypeError")
    ELSE LET it == Iter(self.chosen)
         IN IF \E i \in DOMAIN it : it[i] \notin Range(self.ops)
            THEN Raise("KeyError")
            ELSE Ok([i \in DOMAIN it |-> Term(One, it[i], x)])

\* DiffOP.forward_all
DiffOP_forward_all(self, x) ==
    Ok([i \in DOMAIN self.ops |-> Term(One, self.ops[i], x)])

\* DiffOP.forward_arch_param
DiffOP_forward_arch_param(self, x, arch_param) ==
    IF arch_param = NoParam THEN DiffOP_forward_all(self, x)
    ELSE Ok(Weighted(compute_arch_probs(arch_param), self.ops, x))

\* fix_chosen without its `if self.is_fixed: raise` guard
Mut_DiffOP_fix_chosen(self, c) ==
    Eff([self EXCEPT
            !.ops = SelectSeq(self.ops, LAMBDA n : PyEq(n, c)),
            !.chosen = c,
            !.is_fixed = TRUE],
        Ok(<<>>))

\* DiffOP.fix_chosen
DiffOP_fix_chosen(self, c) ==
    IF self.is_fixed THEN Eff(self, Raise("AttributeError"))
    ELSE Eff([self EXCEPT
                 !.ops = SelectSeq(self.ops, LAMBDA n : PyEq(n, c)),
                 !.chosen = c,
                 !.is_fixed = TRUE],
             Ok(<<>>))

\* DiffOP.sample_choice: self.choices[argmax(softmax(arch_param))]
DiffOP_sample_choice(self, arch_param) ==
    LET p == softmax(arch_param)
        k == argmax([i \in DOMAIN p |-> p[i][1]])
    IN IF k > Len(self.ops) THEN Raise("IndexError")
       ELSE Ok(<<self.ops[k]>>)

\* --------------------------------------------------------- DynaDiffOP
\* torch.topk(probs, 2) values: the largest and the second largest entry
\* (numerators; the entries share their denominator)
Top1(p) == p[argmax([i \in DOMAIN p |-> p[i][1]])][1]

Top2(p) ==
    LET i1 == argmax([i \in DOMAIN p |-> p[i][1]])
        rest == {p[i][1] : i \in DOMAIN p \ {i1}}
    IN CHOOSE m \in rest : \A r \in rest : r <= m

\* sorted_param[0][0] - sorted_param[0][1] >= self.dyna_thresh
GapReached(p) ==
    (Top1(p) - Top2(p)) * dyna_thresh_den >= dyna_thresh_num * p[1][2]

\* DynaDiffOP.forward_arch_param
DynaDiffOP_forward_arch_param(self, x, arch_param) ==
    IF arch_param = NoParam THEN Eff(self, DiffOP_forward_all(self, x))
    ELSE
      LET probs == compute_arch_probs(arch_param) IN
      IF ~self.is_fixed THEN
        IF Len(probs) < 2 THEN Eff(self, Raise("RuntimeError"))
        ELSE IF GapReached(probs) THEN
          \* index is True: self.choices[True] is self.choices[1]
          IF Len(self.ops) < 2 THEN Eff(self, Raise("IndexError"))
          ELSE LET f == DiffOP_fix_chosen(self, Str(self.ops[2]))
               IN Eff(f.self, Ok(Weighted(probs, f.self.ops, x)))
        ELSE Eff(self, Ok(Weighted(probs, self.ops, x)))
      ELSE
        IF self.chosen.t = "none" THEN Eff(self, Raise("TypeError"))
        ELSE LET it == Iter(self.chosen) IN
          IF it = <<>> THEN Eff(self, Raise("IndexError"))
          ELSE IF it[1] \notin Range(self.ops)
          THEN Eff(self, Raise("ValueError"))
          ELSE LET index == CHOOSE i \in DOMAIN self.ops : self.ops[i] = it[1]
               IN IF index > Len(probs) THEN Eff(self, Raise("IndexError"))
                  ELSE Eff(self, Ok(Weighted(OneHot(Len(probs), index),
                                             self.ops, x)))

\* ---------------------------------------------------- DiffChoiceRoute
\* F.gumbel_softmax(arch_param, tau, hard): the entries (a_i + g_i) / tau
\* for Gumbel noise g; tau is the fraction 1/d
gumbel_softmax(a, g, t, h) ==
    LET y == [i \in DOMAIN a |-> ((a[i] + g[i]) * t[2]) \div t[1]]
    IN IF h THEN OneHot(Len(a), argmax(y)) ELSE softmax(y)

\* compute_arch_probs as the route classes resolve it
Route_compute_arch_probs(self, a, g) ==
    IF self.cls = "GumbelChoiceRoute"
    THEN gumbel_softmax(a, g, self.tau, self.hard)
    ELSE compute_arch_probs(a)

\* the terms of `for prob, module, input in zip(probs, edges, x)`
Weighted3(probs, ops, x) ==
    LET n == ZipLen(probs, [i \in 1..ZipLen(ops, x) |-> i])
        idx == SelectSeq([i \in 1..n |-> i], LAMBDA i : probs[i][1] > 0)
    IN [j \in DOMAIN idx |-> Term(Norm(probs[idx[j]]), ops[idx[j]], x[idx[j]])]

\* DiffChoiceRoute.forward_all
Route_forward_all(self, x) ==
    IF Len(x) # Len(self.ops) THEN Raise("AssertionError")
    ELSE Ok([i \in DOMAIN self.ops |-> Term(One, self.ops[i], x[i])])

\* DiffChoiceRoute.forward_arch_param
Route_forward_arch_param(self, x, arch_param, g) ==
    IF Len(x) # Len(self.ops) THEN Raise("AssertionError")
    ELSE IF self.with_arch_param THEN
      IF arch_param = NoParam THEN Raise("AttributeError")
      ELSE Ok(Weighted3(Route_compute_arch_probs(self, arch_param, g),
                        self.ops, x))
    ELSE Route_forward_all(self, x)

\* forward_fixed that pairs the inputs with the edges that are left
Mut_Route_forward_fixed(self, inputs) ==
    IF self.chosen.t = "none" THEN Raise("AssertionError")
    ELSE
      LET uc == self.ops
          n == ZipLen(uc, inputs)
          idx == SelectSeq([i \in 1..n |-> i],
                           LAMBDA i : uc[i] \in Range(self.chosen.v))
      IN Ok([j \in DOMAIN idx |-> Term(One, uc[idx[j]], inputs[idx[j]])])

\* DiffChoiceRoute.forward_fixed
Route_forward_fixed(self, inputs) ==
    IF self.chosen.t = "none" THEN Raise("AssertionError")
    ELSE
      LET uc == self.unfixed_choices.v
          n == ZipLen(uc, inputs)
          idx == SelectSeq([i \in 1..n |-> i],
                           LAMBDA i : uc[i] \in Range(self.chosen.v))
      IN IF \E j \in DOMAIN idx : uc[idx[j]] \notin Range(self.ops)
         THEN Raise("KeyError")
         ELSE Ok([j \in DOMAIN idx |-> Term(One, uc[idx[j]], inputs[idx[j]])])

\* fix_chosen without its `if self.is_fixed: raise` guard
Mut_Route_fix_chosen(self, c) ==
    Eff([self EXCEPT
            !.unfixed_choices = List(self.ops),
            !.ops = SelectSeq(self.ops, LAMBDA n : n \in Range(c.v)),
            !.chosen = c,
            !.is_fixed = TRUE],
        Ok(<<>>))

\* DiffChoiceRoute.fix_chosen
Route_fix_chosen(self, c) ==
    LET s1 == [self EXCEPT !.unfixed_choices = List(self.ops)] IN
    IF s1.is_fixed THEN Eff(s1, Raise("AttributeError"))
    ELSE Eff([s1 EXCEPT
                 !.ops = SelectSeq(s1.ops, LAMBDA n : n \in Range(c.v)),
                 !.chosen = c,
                 !.is_fixed = TRUE],
             Ok(<<>>))

\* ------------------------------------------------ dispatch by class
forward_fixed(self, x) ==
    IF IsRoute(self.cls) THEN Route_forward_fixed(self, x)
    ELSE DiffOP_forward_fixed(self, x)

forward_all(self, x) ==
    IF IsRoute(self.cls) THEN Route_forward_all(self, x)
    ELSE DiffOP_forward_all(self, x)

forward_arch_param(self, x, arch_param, g) ==
    CASE IsRoute(self.cls) ->
           Eff(self, Route_forward_arch_param(self, x, arch_param, g))
      [] self.cls = "DynaDiffOP" ->
           DynaDiffOP_forward_arch_param(self, x, arch_param)
      [] OTHER -> Eff(self, DiffOP_forward_arch_param(self, x, arch_param))

fix_chosen(self, c) ==
    IF IsRoute(self.cls) THEN Route_fix_chosen(self, c)
    ELSE DiffOP_fix_chosen(self, c)

\* forward that does not look at is_fixed
Mut_DiffMutable_forward(self, x, arch_param, g) ==
    forward_arch_param(self, x, arch_param, g)

\* DiffMutable.forward
DiffMutable_forward(self, x, arch_param, g) ==
    IF self.is_fixed THEN Eff(self, forward_fixed(self, x))
    ELSE forward_arch_param(self, x, arch_param, g)

\* ------------------------------------------------------------ inputs
ArchParams == [1..Len(built_ops) -> 0..MaxLogit]

\* Gumbel noise, drawn only where gumbel_softmax draws it: none, or enough
\* on one entry to make it the largest
NoNoise == [i \in 1..Len(built_ops) |-> 0]

Noises(ap) ==
    IF cls = "GumbelChoiceRoute" /\ ~is_fixed /\ with_arch_param
       /\ ap \in ArchParams
    THEN {NoNoise} \cup {[NoNoise EXCEPT ![i] = MaxLogit + 1] :
                            i \in 1..Len(built_ops)}
    ELSE {NoNoise}

\* the arch_param a mutator binds with set_forward_args
BoundParams == {[i \in 1..Len(built_ops) |-> IF i = 1 THEN MaxLogit ELSE 0]}

\* forward(x): no arch_param argument at all
Absent == <<-3>>

\* an input tensor (DiffOP) or a list of input tensors, one per edge (route)
Inputs == IF IsRoute(cls)
          THEN {[i \in 1..k |-> i] :
                   k \in {Len(built_ops), Len(built_ops) + 1} \ {0}}
          ELSE {1}

ChosenLists == {List(l) : l \in NameLists(MaxChosen)}

\* fix_chosen(chosen: Union[List[str], str]) / fix_chosen(chosen: List[str])
ChosenArgs == IF IsRoute(cls) THEN ChosenLists
              ELSE ChosenLists \cup {Str(n) : n \in NameU}

\* GumbelChoiceRoute temperatures 1/d
Taus == {<<1, 1>>, <<1, 2>>}

NoCall == [op |-> "init", x |-> 0, ap |-> NoParam, chosen |-> None,
           pre |-> None]

Called(op, x, ap, c) == [op |-> op, x |-> x, ap |-> ap, chosen |-> c,
                         pre |-> Self]

\* ----------------------------------------------------- construction
\* DiffOP.__init__ / DynaDiffOP.__init__ / DiffChoiceRoute.__init__ /
\* GumbelChoiceRoute.__init__ with a non-empty ModuleDict
MInit ==
    /\ cls \in Classes
    /\ built_ops \in Prefixes(MaxCand)
    /\ candidate_ops = built_ops
    /\ is_fixed = FALSE
    /\ chosen = None
    /\ unfixed_choices = None
    /\ with_arch_param \in (IF IsRoute(cls) THEN BOOLEAN ELSE {FALSE})
    /\ hard \in (IF cls = "GumbelChoiceRoute" /\ with_arch_param
                 THEN BOOLEAN ELSE {cls = "GumbelChoiceRoute"})
    /\ tau = <<1, 1>>
    /\ forward_args = Unbound
    /\ fixed_by = "none"
    /\ call = NoCall
    /\ ret = Ok(<<>>)

\* the object fields after a method ran
Becomes(e, op) ==
    /\ fixed_by' = IF ~is_fixed /\ e.self.is_fixed THEN op ELSE fixed_by
    /\ candidate_ops' = e.self.ops
    /\ is_fixed' = e.self.is_fixed
    /\ chosen' = e.self.chosen
    /\ unfixed_choices' = e.self.unfixed_choices
    /\ ret' = e.ret
    /\ UNCHANGED <<cls, built_ops, with_arch_param, hard, tau, forward_args>>
    /\ UNCHANGED rest_m

\* ----------------------------------------------------------- actions
\* mutable(x, arch_param=ap): the forward that set_forward_args may have
\* rebound to partial(self.forward, arch_param=forward_args)
Forward ==
    \E x \in Inputs, ap \in ArchParams \cup {NoParam, Absent} :
      LET a == IF ap # Absent THEN ap
               ELSE IF forward_args # Unbound THEN forward_args
               ELSE NoParam
      IN \E g \in Noises(a) :
           /\ call' = Called("forward", x, ap, None)
           /\ Becomes(DiffMutable_forward(Self, x, a, g), "forward")

ForwardArchParam ==
    \E x \in Inputs, ap \in ArchParams \cup {NoParam} : \E g \in Noises(ap) :
      /\ call' = Called("forward_arch_param", x, ap, None)
      /\ Becomes(forward_arch_param(Self, x, ap, g), "forward_arch_param")

ForwardFixed ==
    \E x \in Inputs :
      /\ call' = Called("forward_fixed", x, NoParam, None)
      /\ Becomes(Eff(Self, forward_fixed(Self, x)), "forward_fixed")

ForwardAll ==
    \E x \in Inputs :
      /\ call' = Called("forward_all", x, NoParam, None)
      /\ Becomes(Eff(Self, forward_all(Self, x)), "forward_all")

FixChosen ==
    \E c \in ChosenArgs :
      /\ call' = Called("fix_chosen", 0, NoParam, c)
      /\ Becomes(fix_chosen(Self, c), "fix_chosen")

SampleChoice ==
    /\ ~IsRoute(cls)
    /\ \E ap \in ArchParams :
         /\ call' = Called("sample_choice", 0, ap, None)
         /\ Becomes(Eff(Self, DiffOP_sample_choice(Self, ap)), "sample_choice")

\* DiffMutable.set_forward_args
SetForwardArgs ==
    \E ap \in BoundParams :
      /\ forward_args' = ap
      /\ call' = Called("set_forward_args", 0, ap, None)
      /\ ret' = Ok(<<>>)
      /\ UNCHANGED <<cls, built_ops, candidate_ops, is_fixed, chosen,
                     unfixed_choices, with_arch_param, hard, tau, fixed_by>>
      /\ UNCHANGED rest_m

\* GumbelChoiceRoute.set_temperature
SetTemperature ==
    /\ cls = "GumbelChoiceRoute"
    /\ \E t \in Taus :
         /\ tau' = t
         /\ call' = Called("set_temperature", 0, NoParam, None)
         /\ ret' = Ok(<<>>)
         /\ UNCHANGED <<cls, built_ops, candidate_ops, is_fixed, chosen,
                        unfixed_choices, with_arch_param, hard, forward_args,
                        fixed_by>>
         /\ UNCHANGED rest_m

MNext ==
    \/ Forward
    \/ ForwardArchParam
    \/ ForwardFixed
    \/ ForwardAll
    \/ FixChosen
    \/ SampleChoice
    \/ SetForwardArgs
    \/ SetTemperature

\* ------------------------------------------- construction as a call
\* no object: what a constructor that raised leaves behind
NoObject == [cls |-> "none", ops |-> <<>>, is_fixed |-> FALSE,
             chosen |-> None, unfixed_choices |-> None,
             with_arch_param |-> FALSE, hard |-> FALSE, tau |-> <<1, 1>>]

\* a constructor without its `assert len(...) >= 1`
Mut_construct(c, ops, wap, h, t) ==
    Eff([cls |-> c, ops |-> ops, is_fixed |-> FALSE, chosen |-> None,
         unfixed_choices |-> None, with_arch_param |-> wap, hard |-> h,
         tau |-> t],
        Ok(<<>>))

\* DiffOP.__init__, DynaDiffOP.__init__, DiffChoiceRoute.__init__ and
\* GumbelChoiceRoute.__init__: assert len(candidate_ops / edges) >= 1,
\* then _is_fixed = False and the ModuleDict kept as it was given
construct(c, ops, wap, h, t) ==
    IF ~(Len(ops) >= 1) THEN Eff(NoObject, Raise("AssertionError"))
    ELSE Eff([cls |-> c, ops |-> ops, is_fixed |-> FALSE, chosen |-> None,
              unfixed_choices |-> None, with_arch_param |-> wap, hard |-> h,
              tau |-> t],
             Ok(<<>>))

\* before any constructor ran
NoMutable ==
    /\ cls = "none"
    /\ built_ops = <<>>
    /\ candidate_ops = <<>>
    /\ is_fixed = FALSE
    /\ chosen = None
    /\ unfixed_choices = None
    /\ with_arch_param = FALSE
    /\ hard = FALSE
    /\ tau = <<1, 1>>
    /\ forward_args = Unbound
    /\ fixed_by = "none"
    /\ call = NoCall
    /\ ret = Ok(<<>>)

\* Class(candidate_ops / edges, ...): one object is followed, a constructor
\* that raised can be called again
Construct ==
    /\ cls = "none"
    /\ \E c \in Classes, ops \in Prefixes(MaxCand) \cup {<<>>} :
       \E wap \in (IF IsRoute(c) THEN BOOLEAN ELSE {FALSE}) :
       \E h \in (IF c = "GumbelChoiceRoute" /\ wap THEN BOOLEAN
                  ELSE {c = "GumbelChoiceRoute"}) :
       \E e \in {construct(c, ops, wap, h, <<1, 1>>)} :
         /\ call' = [op |-> "__init__", x |-> 0, ap |-> NoParam,
                     chosen |-> List(ops), pre |-> [NoObject EXCEPT !.cls = c]]
         /\ cls' = e.self.cls
         /\ built_ops' = e.self.ops
         /\ candidate_ops' = e.self.ops
         /\ is_fixed' = e.self.is_fixed
         /\ chosen' = e.self.chosen
         /\ unfixed_choices' = e.self.unfixed_choices
         /\ with_arch_param' = e.self.with_arch_param
         /\ hard' = e.self.hard
         /\ tau' = e.self.tau
         /\ ret' = e.ret
    /\ UNCHANGED <<forward_args, fixed_by>>
    /\ UNCHANGED rest_m

\* the calls on the object once it exists
Use ==
    /\ cls # "none"
    /\ (ForwardAll \/ ForwardFixed \/ FixChosen \/ SampleChoice \/ SetTemperature)

CNext ==
    \/ Construct
    \/ Use


\* =================================================================
\* The supernet, its OneShotMutator and the trainers' forward steps
\* =================================================================
Groups == 0..(NumGroups - 1)

\* group 0 ties two mutables by alias, every other group holds one
Members(g) == IF g = 0 THEN <<1, 2>> ELSE <<g + 2>>

Mutables == 1..(NumGroups + 1)

\* NB201 operation names; a trailing underscore marks a shrunk operation
OpOrder == <<"conv_3x3", "conv_1x1", "skip_connect_">>

OpPrefix(n) == SubSeq(OpOrder, 1, IF n < 3 THEN n ELSE 3)

NoChoice == "None"

\* a Python dict is a function; None is NoDict
NoDict == [none |-> TRUE, d |-> <<>>]

Dict(d) == [none |-> FALSE, d |-> d]

\* modules[0].choices of group g
GroupChoices(sn, sg, g) == sn[sg[g][1]].candidate_ops

\* OneShotMutator.random_subnet: one candidate name per group of the
\* search group (every value the property can return)
random_subnet(sn, sg) ==
    {d \in [DOMAIN sg -> Range(OpOrder)] :
        \A g \in DOMAIN sg : d[g] \in Range(GroupChoices(sn, sg, g))}

\* OneShotMutator.set_subnet: a transient selection for the groups in the
\* dict; is_fixed and the candidates stay as they are
set_subnet(sn, sg, d) ==
    [m \in DOMAIN sn |->
        IF \E g \in DOMAIN sg \cap DOMAIN d : m \in Range(sg[g])
        THEN LET g == CHOOSE h \in DOMAIN sg \cap DOMAIN d : m \in Range(sg[h])
             IN [sn[m] EXCEPT !.current_choice = d[g]]
        ELSE sn[m]]

\* self.model(inputs): every mutable applies its current choice, or all of
\* its candidates when none is selected
model_forward(sn) ==
    IF \E m \in DOMAIN sn : /\ sn[m].current_choice # NoChoice
                            /\ sn[m].current_choice \notin Range(sn[m].candidate_ops)
    THEN [kind |-> "raise", exc |-> "KeyError", used |-> <<>>]
    ELSE [kind |-> "ok", exc |-> "",
          used |-> [m \in DOMAIN sn |-> sn[m].current_choice]]

\* `__flops__` of a candidate operation
FlopsOf(name) == CASE name = "conv_3x3" -> 9
                   [] name = "conv_1x1" -> 1
                   [] OTHER -> 0

RECURSIVE SumOver(_, _)
SumOver(f, S) == IF S = {} THEN 0
                 ELSE LET e == CHOOSE y \in S : TRUE
                      IN f[e] + SumOver(f, S \ {e})

\* get_subnet_flops keyed one group too far
Mut_get_subnet_flops(sn, sg, d) ==
    IF \E k \in DOMAIN sg : (k + 1) \notin DOMAIN d
    THEN [kind |-> "raise", exc |-> "KeyError", val |-> 0]
    ELSE [kind |-> "ok", exc |-> "", val |-> 0]

\* NB201_Balance_Trainer.get_subnet_flops
get_subnet_flops(sn, sg, d) ==
    IF \E k \in DOMAIN sg :
         \/ k \notin DOMAIN d
         \/ d[k] \notin Range(sn[sg[k][1]].candidate_ops)
    THEN [kind |-> "raise", exc |-> "KeyError", val |-> 0]
    ELSE [kind |-> "ok", exc |-> "",
          val |-> SumOver([k \in DOMAIN sg |-> FlopsOf(d[k])], DOMAIN sg)]

Pass(d, out) == [subnet |-> d, out |-> out]

\* the supernet and a trainer whose mutator ran prepare_from_supernet; the
\* aliased group has 2 candidates per mutable, every other group n
TInit ==
    /\ \E n \in 2..MaxOps :
         supernet = [m \in Mutables |->
            LET g == CHOOSE h \in Groups : m \in Range(Members(h))
            IN [candidate_ops |-> OpPrefix(IF g = 0 THEN 2 ELSE n),
                is_fixed |-> FALSE, current_choice |-> NoChoice]]
    /\ search_group = [g \in Groups |-> Members(g)]
    /\ searching \in BOOLEAN
    /\ rand_subnet = NoDict
    /\ last_subnet = NoDict
    /\ passes = <<>>
    /\ flops = <<>>
    /\ t_call = "init"
    /\ t_ret = [kind |-> "ok", exc |-> "", used |-> <<>>]

\* two passes that sample the second subnet but keep the first selected
Mut_forward_pairwise_loss(s1, s2) ==
    \E sn1 \in {set_subnet(supernet, search_group, s1)} :
      \E out1 \in {model_forward(sn1)} :
        /\ supernet' = sn1
        /\ rand_subnet' = Dict(s2)
        /\ last_subnet' = Dict(s2)
        /\ passes' = <<Pass(s1, out1), Pass(s2, out1)>>
        /\ flops' = <<get_subnet_flops(sn1, search_group, s1),
                      get_subnet_flops(sn1, search_group, s2)>>
        /\ t_ret' = out1

\* SampleStrategyMixin._forward_pairwise_loss with the two subnets that
\* mutator.random_subnet returned
forward_pairwise_loss(s1, s2) ==
    \E sn1 \in {set_subnet(supernet, search_group, s1)} :
      \E sn2 \in {set_subnet(sn1, search_group, s2)} :
        \E out2 \in {model_forward(sn2)} :
          /\ supernet' = sn2
          /\ rand_subnet' = Dict(s2)
          /\ last_subnet' = Dict(s2)
          /\ passes' = <<Pass(s1, model_forward(sn1)), Pass(s2, out2)>>
          /\ flops' = <<get_subnet_flops(sn1, search_group, s1),
                        get_subnet_flops(sn2, search_group, s2)>>
          /\ t_ret' = out2

ForwardPairwiseLoss ==
    /\ \E s1, s2 \in random_subnet(supernet, search_group) :
         forward_pairwise_loss(s1, s2)
    /\ t_call' = "_forward_pairwise_loss"
    /\ UNCHANGED <<search_group, searching>>
    /\ UNCHANGED rest_t

\* NB201Trainer._forward
NB201Trainer_forward ==
    /\ IF searching
       THEN \E s \in random_subnet(supernet, search_group) :
              /\ supernet' = set_subnet(supernet, search_group, s)
              /\ last_subnet' = Dict(s)
              /\ passes' = <<Pass(s, model_forward(supernet'))>>
       ELSE /\ passes' = <<Pass(last_subnet.d, model_forward(supernet))>>
            /\ UNCHANGED <<supernet, last_subnet>>
    /\ t_ret' = passes'[1].out
    /\ flops' = <<>>
    /\ t_call' = "NB201Trainer._forward"
    /\ UNCHANGED <<search_group, searching, rand_subnet>>
    /\ UNCHANGED rest_t

\* random.sample(choices, len(choices)): the orders of the whole list
Shuffles(l) ==
    {p \in [1..Len(l) -> Range(l)] : \A i, j \in 1..Len(l) : p[i] = p[j] => i = j}

\* NB201_Balance_Trainer._generate_fair_lists with choices_dict drawn;
\* num_choices is the length of the last group's list
generate_fair_lists(sg, choices_dict) ==
    LET last == CHOOSE g \in DOMAIN sg : \A h \in DOMAIN sg : h <= g
        num_choices == Len(choices_dict[last])
    IN IF \E g \in DOMAIN sg : Len(choices_dict[g]) < num_choices
       THEN [kind |-> "raise", exc |-> "IndexError", val |-> <<>>]
       ELSE [kind |-> "ok", exc |-> "",
             val |-> [i \in 1..num_choices |->
                        [g \in DOMAIN sg |-> choices_dict[g][i]]]]

\* the supernet after set_subnet of fair_dicts[1..i], one after the other
RECURSIVE AfterDicts(_, _, _, _)
AfterDicts(sn, sg, dicts, i) ==
    IF i = 0 THEN sn
    ELSE set_subnet(AfterDicts(sn, sg, dicts, i - 1), sg, dicts[i])

\* NB201_Balance_Trainer._forward_fairnas
ForwardFairnas ==
    /\ \E sh \in {[g \in DOMAIN search_group |->
                      Shuffles(GroupChoices(supernet, search_group, g))]} :
       \E cd \in [DOMAIN search_group -> UNION {sh[g] : g \in DOMAIN search_group}] :
         /\ \A g \in DOMAIN search_group : cd[g] \in sh[g]
         /\ LET fair == generate_fair_lists(search_group, cd)
                n == Len(fair.val)
            IN IF fair.kind = "raise"
               THEN /\ t_ret' = [kind |-> "raise", exc |-> fair.exc, used |-> <<>>]
                    /\ passes' = <<>>
                    /\ UNCHANGED <<supernet, rand_subnet, last_subnet>>
               ELSE /\ supernet' = AfterDicts(supernet, search_group, fair.val, n)
                    /\ rand_subnet' = Dict(fair.val[n])
                    /\ last_subnet' = Dict(fair.val[n])
                    /\ passes' = [i \in 1..n |->
                         Pass(fair.val[i],
                              model_forward(AfterDicts(supernet, search_group,
                                                       fair.val, i)))]
                    /\ t_ret' = passes'[n].out
    /\ flops' = <<>>
    /\ t_call' = "_forward_fairnas"
    /\ UNCHANGED <<search_group, searching>>
    /\ UNCHANGED rest_t

TNext ==
    \/ ForwardPairwiseLoss
    \/ ForwardFairnas
    \/ NB201Trainer_forward

\* =================================================================
\* NB301Evaluator: the rank computations and the trainer's mutator
\* =================================================================
\* a float: finite with a value, NaN or an infinity; `tensor` tells a
\* 0-dim Tensor from a Python float
Fin(v) == [k |-> "fin", v |-> v, tensor |-> FALSE]

FinT(v) == [k |-> "fin", v |-> v, tensor |-> TRUE]

NaN == [k |-> "nan", v |-> 0, tensor |-> FALSE]

PInf == [k |-> "inf", v |-> 1, tensor |-> FALSE]

NInf == [k |-> "inf", v |-> -1, tensor |-> FALSE]

\* math.isnan(score) or math.isinf(score)
IsNanOrInf(s) == s.k \in {"nan", "inf"}

\* the scores a supernet proxy can give
Scores == {Fin(-1), FinT(2), NaN, PInf, NInf}

\* score.cpu().detach().numpy(): the same value, no longer a Tensor
ToNumpy(s) == [s EXCEPT !.tensor = FALSE]

\* lines 245-252 / 287-294: the entry appended for one score
Recorded(score) ==
    IF IsNanOrInf(score) THEN Fin(0)
    ELSE IF score.tensor THEN ToNumpy(score) ELSE score

\* query_result(genotype): generate_genotype returns the same Genotype for
\* every subnet, so every sample queries the same finite entry
query_result == Fin(1)

\* NB201_Balance_Trainer.__init__: a mutator of its own is prepared there;
\* a caller's mutator was prepared by the caller
EInit ==
    /\ mutator_supplied \in BOOLEAN
    /\ prepare_calls = 1
    /\ first_sample_at = -1
    /\ num_sample \in 1..MaxSample
    /\ drawn_scores = <<>>
    /\ true_indicator_list = <<>>
    /\ generated_indicator_list = <<>>
    /\ e_call = "__init__"

\* the first mutator.random_subnet / set_subnet of a run
Sampled(p) == IF first_sample_at = -1 THEN p ELSE first_sample_at

\* compute_rank_consistency(dataloader, trainer.mutator)
ComputeRankConsistency ==
    /\ \E sc \in [1..num_sample -> Scores] :
         /\ drawn_scores' = sc
         /\ generated_indicator_list' = sc
    /\ true_indicator_list' = [i \in 1..num_sample |-> query_result]
    /\ first_sample_at' = Sampled(prepare_calls)
    /\ e_call' = "compute_rank_consistency"
    /\ UNCHANGED <<mutator_supplied, prepare_calls, num_sample>>
    /\ UNCHANGED rest_e

\* compute_rank_by_flops: the generated indicator is the table's flops
ComputeRankByFlops ==
    /\ drawn_scores' = [i \in 1..num_sample |-> query_result]
    /\ generated_indicator_list' = [i \in 1..num_sample |-> query_result]
    /\ true_indicator_list' = [i \in 1..num_sample |-> query_result]
    /\ first_sample_at' = Sampled(prepare_calls)
    /\ e_call' = "compute_rank_by_flops"
    /\ UNCHANGED <<mutator_supplied, prepare_calls, num_sample>>
    /\ UNCHANGED rest_e

\* the loop of compute_rank_by_zerometric and compute_rank_based_on_nwot,
\* after their prepare_from_supernet
PreparedRank(name) ==
    /\ prepare_calls < MaxPrepare
    /\ prepare_calls' = prepare_calls + 1
    /\ \E sc \in [1..num_sample -> Scores] :
         /\ drawn_scores' = sc
         /\ generated_indicator_list' = [i \in 1..num_sample |-> Recorded(sc[i])]
    /\ true_indicator_list' = [i \in 1..num_sample |-> query_result]
    /\ first_sample_at' = Sampled(prepare_calls + 1)
    /\ e_call' = name
    /\ UNCHANGED <<mutator_supplied, num_sample>>
    /\ UNCHANGED rest_e

ComputeRankByZerometric == PreparedRank("compute_rank_by_zerometric")

ComputeRankBasedOnNwot == PreparedRank("compute_rank_based_on_nwot")

ENext ==
    \/ ComputeRankConsistency
    \/ ComputeRankByFlops
    \/ ComputeRankByZerometric
    \/ ComputeRankBasedOnNwot

\* =================================================================
\* ZeroCostPredictorEvaluator
\* =================================================================
\* 1e9, the replacement of an infinite score
Big == 1000000000

\* a table entry: a scalar score or the list of an ensemble's scores
Scalar(sc) == [vec |-> FALSE, vs |-> <<sc>>]

Vector(vs) == [vec |-> TRUE, vs |-> vs]

\* the ensemble score lists of size e the table may hold
EnsScores(e) ==
    {Vector([j \in 1..e |-> Fin(2)]),
     Vector([j \in 1..e |-> IF j = 1 THEN Fin(0) ELSE Fin(2)]),
     Vector([j \in 1..e |-> IF j = 1 THEN PInf ELSE Fin(0)])}

\* the scalar scores a benchmark table may hold
TableScores == {Fin(-1), Fin(2), NaN, PInf, NInf}

\* the tables: n architectures, all scalar or all of one ensemble size
Tables ==
    UNION {[1..n -> {Scalar(sc) : sc \in TableScores}] : n \in 1..MaxArch}
    \cup UNION {[1..n -> EnsScores(e)] : n \in 1..MaxArch, e \in 2..MaxEns}

\* a score left as it came
Mut_Replaced(pred) == pred

\* lines 135-138: a list is equal to neither infinity
Replaced(pred) ==
    IF pred.vec THEN pred
    ELSE IF pred.vs[1] = NInf THEN Scalar(Fin(-Big))
    ELSE IF pred.vs[1] = PInf THEN Scalar(Fin(Big))
    ELSE pred


\* an array element: finite values are fractions <<numerator, denominator>>
Elem(sc) == [k |-> sc.k, v |-> IF sc.k = "fin" THEN <<sc.v, 1>> ELSE <<sc.v, 0>>]

RECURSIVE SumV(_, _)
SumV(col, i) == IF i = 0 THEN 0 ELSE col[i].v + SumV(col, i - 1)

\* np.mean of a column of scores
MeanOf(col) ==
    LET ks == {col[i].k : i \in DOMAIN col}
        infs == {col[i].v : i \in {j \in DOMAIN col : col[j].k = "inf"}}
    IN IF "nan" \in ks \/ infs = {1, -1} THEN [k |-> "nan", v |-> <<0, 0>>]
       ELSE IF infs # {} THEN [k |-> "inf", v |-> <<CHOOSE x \in infs : TRUE, 0>>]
       ELSE [k |-> "fin", v |-> Norm(<<SumV(col, Len(col)), Len(col)>>)]

\* lines 142-147: np.array(test_pred), then np.mean(axis=0) if it has more
\* than one dimension
NpArrayMean(preds) ==
    IF preds[1].vec
    THEN [j \in 1..Len(preds[1].vs) |->
            MeanOf([i \in DOMAIN preds |-> preds[i].vs[j]])]
    ELSE [i \in DOMAIN preds |-> Elem(preds[i].vs[1])]

\* a value with its Python type
Typed(ty, v) == [ty |-> ty, v |-> v]

\* utils.compute_scores(ytest, test_pred) and line 151: the result record
compute_scores(ytest, pred, run) ==
    [kendalltau |-> Typed("np.float64",
                          Cardinality({i \in DOMAIN pred : pred[i].k = "fin"})),
     count |-> Typed("np.int64", Len(pred)),
     query_time |-> Typed("float", run)]

\* the config, first entry of self.results
Config == [dataset |-> Typed("str", 0), test_size |-> Typed("int", 0)]

\* a value written as it is
Mut_Native(val) == val

\* lines 200-204 on one value
Native(val) ==
    IF val.ty \in {"np.int32", "np.int64"} THEN Typed("int", val.v)
    ELSE IF val.ty \in {"np.float32", "np.float64"} THEN Typed("float", val.v)
    ELSE val


\* lines 199-204 on one record
NativeRec(res) == [key \in DOMAIN res |-> Native(res[key])]

NoFile == <<"no file">>

\* ZeroCostPredictorEvaluator.__init__ with a benchmark table
ZInit ==
    /\ zc_api \in Tables
    /\ log_results_to_json \in BOOLEAN
    /\ results = <<Config>>
    /\ scores_json = NoFile
    /\ z_pc = "idle"
    /\ z_stages = <<>>
    /\ test_data = <<>>
    /\ test_pred = <<>>
    /\ corr_input = <<>>
    /\ z_calls = 0
    /\ z_ret = "none"

\* evaluate, lines 182-183: pre_process and load_test_data
LoadTestData ==
    /\ z_pc = "idle"
    /\ z_calls < MaxEval
    /\ z_pc' = "loaded"
    /\ z_stages' = <<"load">>
    /\ test_data' = [xtest |-> [i \in DOMAIN zc_api |-> i],
                     ytest |-> [i \in DOMAIN zc_api |-> Fin(i)]]
    /\ test_pred' = <<>>
    /\ corr_input' = <<>>
    /\ z_ret' = "running"
    /\ UNCHANGED <<zc_api, log_results_to_json, results, scores_json, z_calls>>
    /\ UNCHANGED rest_z

\* single_evaluate, lines 132-140: a score for every test architecture
FetchScores ==
    /\ z_pc = "loaded"
    /\ z_pc' = "fetched"
    /\ z_stages' = Append(z_stages, "fetch")
    /\ test_pred' = [i \in DOMAIN test_data.xtest |->
                       Replaced(zc_api[test_data.xtest[i]])]
    /\ UNCHANGED <<zc_api, log_results_to_json, results, scores_json,
                   test_data, corr_input, z_calls, z_ret>>
    /\ UNCHANGED rest_z

\* single_evaluate, lines 142-150: the array, its mean and the statistics;
\* the correlation functions refuse arrays of different lengths
ComputeStatistics ==
    /\ z_pc = "fetched"
    /\ test_pred' = NpArrayMean(test_pred)
    /\ corr_input' = [ytest |-> test_data.ytest, test_pred |-> test_pred']
    /\ IF Len(test_pred') = Len(test_data.ytest)
       THEN /\ z_pc' = "computed"
            /\ z_stages' = Append(z_stages, "compute")
            /\ z_ret' = z_ret
       ELSE /\ z_pc' = "idle"
            /\ z_stages' = z_stages
            /\ z_ret' = "ValueError"
    /\ UNCHANGED <<zc_api, log_results_to_json, results, scores_json,
                   test_data, z_calls>>
    /\ UNCHANGED rest_z

\* single_evaluate, line 167
RecordResult ==
    /\ z_pc = "computed"
    /\ z_pc' = "recorded"
    /\ z_stages' = Append(z_stages, "record")
    /\ results' = Append(results,
                         compute_scores(corr_input.ytest, corr_input.test_pred,
                                        z_calls + 1))
    /\ UNCHANGED <<zc_api, log_results_to_json, scores_json, test_data,
                   test_pred, corr_input, z_calls, z_ret>>
    /\ UNCHANGED rest_z

\* the file written before the run's record is appended
Mut_LogToJson ==
    /\ z_pc = "computed"
    /\ log_results_to_json
    /\ z_pc' = "recorded"
    /\ z_stages' = Append(z_stages, "persist")
    /\ results' = [i \in DOMAIN results |-> NativeRec(results[i])]
    /\ scores_json' = results'
    /\ UNCHANGED <<zc_api, log_results_to_json, test_data, test_pred,
                   corr_input, z_calls, z_ret>>
    /\ UNCHANGED rest_z

\* evaluate, lines 186-187, and _log_to_json
LogToJson ==
    /\ z_pc = "recorded"
    /\ log_results_to_json
    /\ z_pc' = "persisted"
    /\ z_stages' = Append(z_stages, "persist")
    /\ results' = [i \in DOMAIN results |-> NativeRec(results[i])]
    /\ scores_json' = results'
    /\ UNCHANGED <<zc_api, log_results_to_json, test_data, test_pred,
                   corr_input, z_calls, z_ret>>
    /\ UNCHANGED rest_z

\* evaluate, line 189
ReturnResults ==
    /\ \/ z_pc = "persisted"
       \/ z_pc = "recorded" /\ ~log_results_to_json
    /\ z_pc' = "idle"
    /\ z_ret' = "results"
    /\ z_calls' = z_calls + 1
    /\ UNCHANGED <<zc_api, log_results_to_json, results, scores_json,
                   z_stages, test_data, test_pred, corr_input>>
    /\ UNCHANGED rest_z

ZNext ==
    \/ LoadTestData
    \/ FetchScores
    \/ ComputeStatistics
    \/ RecordResult
    \/ LogToJson
    \/ ReturnResults

\* =================================================================
\* NB201_Balance_Trainer: fit, _train, _validate
\* =================================================================
\* `if epoch % 10 == 0`
CkptEvery == 10

\* NB201_Balance_Trainer._forward: the model alone, the sampling of a
\* subnet is commented out
Balance_forward == <<"model_forward">>

\* one step of the loop of _train
TrainStep == <<"zero_grad">> \o Balance_forward \o <<"backward", "optimizer_step">>

\* NB201_Balance_Trainer._train: what runs before the loop and in each step
TrainEvents(n) ==
    [pre |-> <<"set_subnet">>, steps |-> [i \in 1..n |-> TrainStep]]

NoTrain == [pre |-> <<>>, steps |-> <<>>]

\* a trainer just built
FInit ==
    /\ n_batches \in 1..MaxBatches
    /\ max_epochs = -1
    /\ current_epoch = 0
    /\ train_loss_ = <<>>
    /\ val_loss_ = <<>>
    /\ f_pc = "idle"
    /\ epoch_stages = <<>>
    /\ train_events = NoTrain
    /\ checkpoints = {}
    /\ sched_steps = 0
    /\ fit_base = <<0, 0, 0>>
    /\ fit_calls = 0

\* fit(train_loader, val_loader, epochs) up to the first epoch
FitCall ==
    /\ f_pc = "idle"
    /\ fit_calls < MaxFit
    /\ \E epochs \in 0..MaxEpochs :
         /\ max_epochs' = epochs
         /\ IF epochs = 0
            THEN UNCHANGED <<current_epoch, f_pc>>
            ELSE current_epoch' = 0 /\ f_pc' = "train"
    /\ fit_calls' = fit_calls + 1
    /\ fit_base' = <<Len(train_loss_), Len(val_loss_), current_epoch>>
    /\ epoch_stages' = <<>>
    /\ checkpoints' = {}
    /\ sched_steps' = 0
    /\ UNCHANGED <<n_batches, train_loss_, val_loss_, train_events>>
    /\ UNCHANGED rest_f

\* fit line 470: self._train(train_loader)
Train ==
    /\ f_pc = "train"
    /\ f_pc' = "validate"
    /\ epoch_stages' = <<"train">>
    /\ train_events' = TrainEvents(n_batches)
    /\ UNCHANGED <<n_batches, max_epochs, current_epoch, train_loss_, val_loss_,
                   checkpoints, sched_steps, fit_base, fit_calls>>
    /\ UNCHANGED rest_f

\* fit line 473: self._validate(val_loader)
Validate ==
    /\ f_pc = "validate"
    /\ f_pc' = IF current_epoch % CkptEvery = 0 THEN "save" ELSE "append"
    /\ epoch_stages' = Append(epoch_stages, "validate")
    /\ UNCHANGED <<n_batches, max_epochs, current_epoch, train_loss_, val_loss_,
                   train_events, checkpoints, sched_steps, fit_base, fit_calls>>
    /\ UNCHANGED rest_f

\* a checkpoint saved whatever the epoch
Mut_SaveCheckpoint ==
    /\ f_pc \in {"save", "append"}
    /\ "save" \notin Range(epoch_stages)
    /\ f_pc' = "append"
    /\ epoch_stages' = Append(epoch_stages, "save")
    /\ checkpoints' = checkpoints \cup {current_epoch}
    /\ UNCHANGED <<n_batches, max_epochs, current_epoch, train_loss_, val_loss_,
                   train_events, sched_steps, fit_base, fit_calls>>
    /\ UNCHANGED rest_f

\* fit lines 476-482: utils.save_checkpoint
SaveCheckpoint ==
    /\ f_pc = "save"
    /\ f_pc' = "append"
    /\ epoch_stages' = Append(epoch_stages, "save")
    /\ checkpoints' = checkpoints \cup {current_epoch}
    /\ UNCHANGED <<n_batches, max_epochs, current_epoch, train_loss_, val_loss_,
                   train_events, sched_steps, fit_base, fit_calls>>
    /\ UNCHANGED rest_f

\* fit lines 484-485
AppendLosses ==
    /\ f_pc = "append"
    /\ f_pc' = "sched"
    /\ train_loss_' = Append(train_loss_, current_epoch)
    /\ val_loss_' = Append(val_loss_, current_epoch)
    /\ epoch_stages' = Append(epoch_stages, "append")
    /\ UNCHANGED <<n_batches, max_epochs, current_epoch, train_events,
                   checkpoints, sched_steps, fit_base, fit_calls>>
    /\ UNCHANGED rest_f

\* fit line 513, then the next epoch or the end of fit
SchedulerStep ==
    /\ f_pc = "sched"
    /\ sched_steps' = sched_steps + 1
    /\ IF current_epoch + 1 < max_epochs
       THEN /\ current_epoch' = current_epoch + 1
            /\ f_pc' = "train"
            /\ epoch_stages' = <<>>
       ELSE /\ f_pc' = "idle"
            /\ epoch_stages' = Append(epoch_stages, "sched")
            /\ UNCHANGED current_epoch
    /\ UNCHANGED <<n_batches, max_epochs, train_loss_, val_loss_, train_events,
                   checkpoints, fit_base, fit_calls>>
    /\ UNCHANGED rest_f

FNext ==
    \/ FitCall
    \/ Train
    \/ Validate
    \/ SaveCheckpoint
    \/ AppendLosses
    \/ SchedulerStep

\* =================================================================
\* NB201_Balance_Trainer: policy_sampler and _generate_fair_lists
\* =================================================================
\* the policies handed to policy_sampler; "balanced" is the default
Policies == {"balanced", "flops", "params", "zenscore"}

\* what a policy call gives back: dicts, or an exception
Dicts(ds) == [kind |-> "ok", exc |-> "", dicts |-> ds]

Raised(exc) == [kind |-> "raise", exc |-> exc, dicts |-> <<>>]

\* NB201_Balance_Trainer.policy_sampler with the subnets random_subnet gave
policy_sampler(sn, sg, policy, n_subnets) ==
    IF policy \notin {"zenscore", "flops", "params"}
    THEN Raised("AssertionError")
    ELSE IF policy = "flops"
    THEN LET n_flops == [i \in DOMAIN n_subnets |->
                            get_subnet_flops(sn, sg, n_subnets[i])]
         IN IF \E i \in DOMAIN n_flops : n_flops[i].kind = "raise"
            THEN Raised("KeyError")
            ELSE Dicts(<<n_subnets[argmax([i \in DOMAIN n_flops |-> n_flops[i].val])]>>)
    ELSE Raised("TypeError")

\* the trainer of TInit, no policy called yet
PInit ==
    /\ TInit
    /\ p_call = [op |-> "init", policy |-> "", n_subnets |-> <<>>]
    /\ p_ret = Dicts(<<>>)

\* policy_sampler(policy, n_samples)
PolicySampler ==
    /\ \E policy \in Policies, n_samples \in 1..2 :
         \E n_subnets \in [1..n_samples -> random_subnet(supernet, search_group)] :
           /\ p_call' = [op |-> "policy_sampler", policy |-> policy,
                         n_subnets |-> n_subnets]
           /\ p_ret' = policy_sampler(supernet, search_group, policy, n_subnets)
    /\ UNCHANGED tvars
    /\ UNCHANGED rest_p

\* _generate_fair_lists()
GenerateFairLists ==
    /\ \E sh \in {[g \in DOMAIN search_group |->
                      Shuffles(GroupChoices(supernet, search_group, g))]} :
       \E cd \in [DOMAIN search_group -> UNION {sh[g] : g \in DOMAIN search_group}] :
         /\ \A g \in DOMAIN search_group : cd[g] \in sh[g]
         /\ LET fair == generate_fair_lists(search_group, cd)
            IN p_ret' = IF fair.kind = "raise" THEN Raised(fair.exc)
                        ELSE Dicts(fair.val)
    /\ p_call' = [op |-> "_generate_fair_lists", policy |-> "", n_subnets |-> <<>>]
    /\ UNCHANGED tvars
    /\ UNCHANGED rest_p

PNext ==
    \/ PolicySampler
    \/ GenerateFairLists

\* =================================================================
\* NB301Evaluator.compute_rank_consistency and trainer.metric_score
\* =================================================================
TrainerClasses == {"NB201Trainer", "NB201_Balance_Trainer"}

\* v.rstrip('_') on an operation name
rstrip(name) == IF name = "skip_connect_" THEN "skip_connect" ELSE name

\* lines 136-138: the sampled dict with every name stripped
StrippedDict(d) == [g \in DOMAIN d |-> rstrip(d[g])]

\* NB301Evaluator.generate_genotype: the Genotype built at lines 80-85; the
\* code that read subnet_dict is commented out
generate_genotype(subnet_dict) ==
    [normal |-> <<>>, normal_concat |-> <<2, 3, 4, 5>>,
     reduce |-> <<>>, reduce_concat |-> <<2, 3, 4, 5>>]

\* NB201_Balance_Trainer._predict before self.model(inputs): the calls that
\* set a subnet are commented out
Balance_predict(sn, sg, subnet_dict) == sn

\* NB201Trainer._predict before self.model(inputs) in batch i: a fresh
\* random subnet when searching, subnet_dict otherwise
RECURSIVE NB201Trainer_predict(_, _, _, _, _, _)
NB201Trainer_predict(sn, sg, srch, subnet_dict, rands, i) ==
    IF i = 0 THEN sn
    ELSE IF srch
    THEN set_subnet(NB201Trainer_predict(sn, sg, srch, subnet_dict, rands, i - 1),
                    sg, rands[i])
    ELSE set_subnet(sn, sg, subnet_dict)

\* compute_rank_consistency up to its loop
RankBegin ==
    /\ r_pc = "idle"
    /\ r_pc' = "loop"
    /\ r_samples' = <<>>
    /\ UNCHANGED <<trainer_cls, loader_len, tvars, evars>>
    /\ UNCHANGED rest_r

\* one iteration of the loop: mutator.random_subnet, the stripped dict,
\* generate_genotype, query_result, and trainer.metric_score(dataloader,
\* random_subnet_dict) with one _predict and model forward per batch
RankSample ==
    /\ r_pc = "loop"
    /\ Len(r_samples) < num_sample
    /\ \E random_subnet_dict_ \in random_subnet(supernet, search_group) :
       \E d \in {StrippedDict(random_subnet_dict_)} :
       \E rands \in (IF trainer_cls = "NB201Trainer" /\ searching
                     THEN [1..loader_len -> random_subnet(supernet, search_group)]
                     ELSE {<<>>}) :
       \E sns \in {[i \in 1..loader_len |->
                      IF trainer_cls = "NB201_Balance_Trainer"
                      THEN Balance_predict(supernet, search_group, d)
                      ELSE NB201Trainer_predict(supernet, search_group,
                                                searching, d, rands, i)]} :
       \E outs \in {[i \in 1..loader_len |-> model_forward(sns[i])]} :
         LET bad == {i \in 1..loader_len : outs[i].kind = "raise"}
             k == IF bad = {} THEN loader_len
                  ELSE CHOOSE i \in bad : \A j \in bad : i <= j
         IN /\ passes' = [i \in 1..k |-> Pass(d, outs[i])]
            /\ supernet' = sns[k]
            /\ last_subnet' =
                 IF trainer_cls = "NB201_Balance_Trainer" THEN last_subnet
                 ELSE IF searching THEN Dict(rands[k]) ELSE Dict(d)
            /\ t_ret' = outs[k]
            /\ r_samples' = Append(r_samples,
                                   [subnet |-> d,
                                    genotype |-> generate_genotype(d)])
            /\ r_pc' = IF bad = {} THEN "loop" ELSE "idle"
    /\ flops' = <<>>
    /\ t_call' = "metric_score"
    /\ UNCHANGED <<search_group, searching, rand_subnet>>
    /\ UNCHANGED <<trainer_cls, loader_len, evars>>
    /\ UNCHANGED rest_r

\* after the loop: the three correlations are returned
RankEnd ==
    /\ r_pc = "loop"
    /\ Len(r_samples) = num_sample
    /\ r_pc' = "idle"
    /\ UNCHANGED <<trainer_cls, loader_len, r_samples, tvars, evars>>
    /\ UNCHANGED rest_r

\* a training step of the trainer between two rank computations
TrainingStep ==
    /\ r_pc = "idle"
    /\ \/ trainer_cls = "NB201Trainer" /\ NB201Trainer_forward
       \/ trainer_cls = "NB201_Balance_Trainer" /\ ForwardPairwiseLoss

\* an evaluator over a trainer of either class and the trainer's own,
\* prepared mutator
RInit ==
    /\ TInit
    /\ EInit
    /\ ~mutator_supplied
    /\ trainer_cls \in TrainerClasses
    /\ loader_len \in 1..MaxBatches
    /\ r_samples = <<>>
    /\ r_pc = "idle"

RNext ==
    \/ RankBegin
    \/ RankSample
    \/ RankEnd
    \/ TrainingStep

\* =================================================================
\* ZeroCostPredictorEvaluator.load_dataset
\* =================================================================
\* the architectures of the search space, by hash: 1..MaxArch are the keys
\* of the benchmark table, 0 is an architecture the table does not hold
SpaceArchs == 0..MaxArch

LabeledArchs == 1..MaxArch

\* self.zc_api[str(encoding)]['val_accuracy']
val_accuracy(encoding) == Fin(encoding)

Loaded(xdata, ydata) == [kind |-> "ok", exc |-> "", xdata |-> xdata,
                         ydata |-> ydata]

\* the `while len(xdata) < data_size` loop from iteration i on: with
\* load_labeled the evaluator's own search space is re-sampled, without it
\* a clone is sampled and dropped; the hash is the own search space's
RECURSIVE load_dataset(_, _, _, _, _, _)
load_dataset(own, load_labeled, data_size, draws, xdata, ydata) ==
    IF ~(Len(xdata) < data_size) THEN [own |-> own, ret |-> Loaded(xdata, ydata)]
    ELSE LET i == Len(xdata) + 1
             own1 == IF load_labeled THEN draws[i] ELSE own
             encoding == own1
         IN IF encoding \notin LabeledArchs
            THEN [own |-> own1,
                  ret |-> [kind |-> "raise", exc |-> "KeyError",
                           xdata |-> xdata, ydata |-> ydata]]
            ELSE load_dataset(own1, load_labeled, data_size, draws,
                              Append(xdata, encoding),
                              Append(ydata, val_accuracy(encoding)))

\* adapt_search_space: a clone of the caller's search space, holding
\* whatever architecture that one held
LInit ==
    /\ own_arch \in SpaceArchs
    /\ l_call = [op |-> "init", load_labeled |-> FALSE, data_size |-> 0,
                 sampled |-> <<>>]
    /\ l_ret = Loaded(<<>>, <<>>)

\* load_dataset(load_labeled, data_size) with the architectures that
\* sample_random_architecture draws
LoadDataset ==
    /\ \E load_labeled \in BOOLEAN, data_size \in 0..MaxData :
       \E draws \in [1..data_size ->
                       IF load_labeled THEN LabeledArchs ELSE SpaceArchs] :
       \E r \in {load_dataset(own_arch, load_labeled, data_size, draws,
                              <<>>, <<>>)} :
         /\ own_arch' = r.own
         /\ l_ret' = r.ret
         /\ l_call' = [op |-> "load_dataset", load_labeled |-> load_labeled,
                       data_size |-> data_size,
                       sampled |-> SubSeq(draws, 1,
                            IF r.ret.kind = "ok" THEN data_size
                            ELSE Len(r.ret.xdata) + 1)]
    /\ UNCHANGED rest_l

\* adapt_search_space(search_space) again, with another search space
AdaptSearchSpace ==
    /\ \E a \in SpaceArchs : own_arch' = a
    /\ l_call' = [op |-> "adapt_search_space", load_labeled |-> FALSE,
                  data_size |-> 0, sampled |-> <<>>]
    /\ l_ret' = Loaded(<<>>, <<>>)
    /\ UNCHANGED rest_l

LNext ==
    \/ LoadDataset
    \/ AdaptSearchSpace

\* ---------------------------------------------------- specifications
vars == <<mvars, tvars, evars, zvars, fvars, pvars, rvars, lvars>>

\* no mutable under test
MIdle ==
    /\ cls = "DiffOP"
    /\ built_ops = <<"a">>
    /\ candidate_ops = <<"a">>
    /\ is_fixed = FALSE
    /\ chosen = None
    /\ unfixed_choices = None
    /\ with_arch_param = FALSE
    /\ hard = FALSE
    /\ tau = <<1, 1>>
    /\ forward_args = Unbound
    /\ fixed_by = "none"
    /\ call = NoCall
    /\ ret = Ok(<<>>)

\* no supernet under a trainer
TIdle ==
    /\ supernet = <<>>
    /\ search_group = <<>>
    /\ searching = FALSE
    /\ rand_subnet = NoDict
    /\ last_subnet = NoDict
    /\ passes = <<>>
    /\ flops = <<>>
    /\ t_call = "init"
    /\ t_ret = [kind |-> "ok", exc |-> "", used |-> <<>>]

\* no evaluator
EIdle ==
    /\ mutator_supplied = FALSE
    /\ prepare_calls = 0
    /\ first_sample_at = -1
    /\ num_sample = 1
    /\ drawn_scores = <<>>
    /\ true_indicator_list = <<>>
    /\ generated_indicator_list = <<>>
    /\ e_call = "init"

\* no zero-cost evaluator
ZIdle ==
    /\ zc_api = <<>>
    /\ log_results_to_json = FALSE
    /\ results = <<>>
    /\ scores_json = NoFile
    /\ z_pc = "idle"
    /\ z_stages = <<>>
    /\ test_data = <<>>
    /\ test_pred = <<>>
    /\ corr_input = <<>>
    /\ z_calls = 0
    /\ z_ret = "none"

\* no fit under way
FIdle ==
    /\ n_batches = 1
    /\ max_epochs = -1
    /\ current_epoch = 0
    /\ train_loss_ = <<>>
    /\ val_loss_ = <<>>
    /\ f_pc = "idle"
    /\ epoch_stages = <<>>
    /\ train_events = NoTrain
    /\ checkpoints = {}
    /\ sched_steps = 0
    /\ fit_base = <<0, 0, 0>>
    /\ fit_calls = 0

\* no policy called
PIdle ==
    /\ p_call = [op |-> "init", policy |-> "", n_subnets |-> <<>>]
    /\ p_ret = Dicts(<<>>)

\* no rank computation under way
RIdle ==
    /\ trainer_cls = "NB201_Balance_Trainer"
    /\ loader_len = 1
    /\ r_samples = <<>>
    /\ r_pc = "idle"

\* no load_dataset called
LIdle ==
    /\ own_arch = 0
    /\ l_call = [op |-> "init", load_labeled |-> FALSE, data_size |-> 0,
                 sampled |-> <<>>]
    /\ l_ret = Loaded(<<>>, <<>>)

\* one mutable and the calls on it
Init == MInit /\ TIdle /\ EIdle /\ ZIdle /\ FIdle /\ PIdle /\ RIdle /\ LIdle

Next == MNext

Spec == Init /\ [][Next]_vars

\* a supernet under a trainer
TrainerInit == TInit /\ MIdle /\ EIdle /\ ZIdle /\ FIdle /\ PIdle /\ RIdle /\ LIdle

TrainerNext == TNext

TrainerSpec == TrainerInit /\ [][TrainerNext]_vars

\* a trainer's mutator under the rank computations of NB301Evaluator
EvalInit == EInit /\ MIdle /\ TIdle /\ ZIdle /\ FIdle /\ PIdle /\ RIdle /\ LIdle

EvalNext == ENext

EvalSpec == EvalInit /\ [][EvalNext]_vars

\* a zero-cost evaluator and its evaluate calls
ZcInit == ZInit /\ MIdle /\ TIdle /\ EIdle /\ FIdle /\ PIdle /\ RIdle /\ LIdle

ZcNext == ZNext

ZcSpec == ZcInit /\ [][ZcNext]_vars

\* a NB201_Balance_Trainer and its fit calls
FitInit == FInit /\ MIdle /\ TIdle /\ EIdle /\ ZIdle /\ PIdle /\ RIdle /\ LIdle

FitNext == FNext

FitSpec == FitInit /\ [][FitNext]_vars

\* a trainer and its subnet-selection policies
PolicyInit == PInit /\ MIdle /\ EIdle /\ ZIdle /\ FIdle /\ RIdle /\ LIdle

PolicyNext == PNext

PolicySpec == PolicyInit /\ [][PolicyNext]_vars

\* a mutable from its construction on
CtorInit == NoMutable /\ TIdle /\ EIdle /\ ZIdle /\ FIdle /\ PIdle /\ RIdle /\ LIdle

CtorNext == CNext

CtorSpec == CtorInit /\ [][CtorNext]_vars

\* the rank-consistency loop of an evaluator over a trainer
RankInit == RInit /\ MIdle /\ ZIdle /\ FIdle /\ PIdle /\ LIdle

RankNext == RNext

RankSpec == RankInit /\ [][RankNext]_vars

\* a zero-cost evaluator sampling its test set
LoadInit == LInit /\ MIdle /\ TIdle /\ EIdle /\ ZIdle /\ FIdle /\ PIdle /\ RIdle

LoadNext == LNext

LoadSpec == LoadInit /\ [][LoadNext]_vars

\* ------------------------------------------------------------ claims
\* the sum of every candidate of `self`, each applied once (edge i to input i)
AllOnce(self, x) ==
    [i \in DOMAIN self.ops |->
        Term(One, self.ops[i], IF IsRoute(self.cls) THEN x[i] ELSE x)]

\* the probability-weighted sum of the candidates of `self`
Mixture(self, probs, x) ==
    IF IsRoute(self.cls) THEN Weighted3(probs, self.ops, x)
    ELSE Weighted(probs, self.ops, x)

\* the probabilities a variant derives from arch_param (under noise g)
ProbsOf(self, a, g) ==
    IF IsRoute(self.cls) THEN Route_compute_arch_probs(self, a, g)
    ELSE compute_arch_probs(a)

\* the inputs match the edges (one input per edge)
InputsFit(self, x) == IsRoute(self.cls) => Len(x) = Len(self.ops)

\* C1: a DiffOP built with 3 candidates and fixed with fix_chosen(c), c one
\* of its candidate names, forwards x to exactly candidate c applied to x.
C1_FixedForwardIsChosen ==
    (/\ cls = "DiffOP"
     /\ Len(built_ops) = 3
     /\ call.op = "forward"
     /\ call.pre.is_fixed
     /\ chosen.t = "str"
     /\ chosen.v[1] \in Range(built_ops))
    => (/\ ret.kind = "ok"
        /\ SameSum(ret.val, <<Term(One, chosen.v[1], call.x)>>))

\* C2: after a fix_chosen(chosen) that succeeded, the remaining candidate
\* names are exactly the names in chosen.
C2_PruningExact ==
    (call.op = "fix_chosen" /\ ret.kind = "ok")
    => Range(candidate_ops) = Range(call.chosen.v)

\* C3: fix_chosen on a mutable that is already fixed raises, whichever call
\* fixed it (fix_chosen or the auto-fix inside a DynaDiffOP forward), and
\* fixes nothing anew.
C3_DoubleFixRaises ==
    (call.op = "fix_chosen" /\ call.pre.is_fixed)
    => (/\ ret.kind = "raise"
        /\ ret.exc = "AttributeError"
        /\ chosen = call.pre.chosen
        /\ candidate_ops = call.pre.ops)

C3_Witness ==
    /\ call.op = "fix_chosen"
    /\ call.pre.is_fixed
    /\ cls = "DynaDiffOP"
    /\ fixed_by = "forward"
    /\ ret.kind = "raise"

\* C4: in every step is_fixed never goes back to false, chosen is assigned
\* only in the step that fixes (so at most once), and the candidate set
\* gains no entry.
C4_FixOneWay ==
    [][ /\ (is_fixed => is_fixed')
        /\ (chosen' # chosen => (~is_fixed /\ is_fixed' /\ chosen = None))
        /\ (~is_fixed' => chosen' = None)
        /\ Range(candidate_ops') \subseteq Range(candidate_ops) ]_vars

C4_Witness ==
    /\ is_fixed
    /\ fixed_by = "fix_chosen"
    /\ call.op = "fix_chosen"
    /\ call.pre.is_fixed
    /\ IsRoute(cls)
    /\ chosen # None
    /\ Len(candidate_ops) < Len(built_ops)

\* C5: once fixed, forward(x, arch_param) is forward_fixed(x) whatever
\* arch_param is passed or was bound by set_forward_args, and changes nothing.
C5_FixedIgnoresArchParam ==
    (call.op = "forward" /\ call.pre.is_fixed)
    => (/\ ret = forward_fixed(call.pre, call.x)
        /\ Self = call.pre)

C5_Witness ==
    /\ call.op = "forward"
    /\ call.pre.is_fixed
    /\ call.ap \in ArchParams
    /\ forward_args # Unbound
    /\ forward_args # call.ap
    /\ ret.kind = "ok"
    /\ ret.val # <<>>

\* C6: forward on an unfixed mutable with an arch_param returns the
\* probability-weighted sum of its candidates' outputs, the probabilities
\* derived from that arch_param, zero-probability candidates skipped.
C6_WeightedMixture ==
    (/\ call.op = "forward"
     /\ ~call.pre.is_fixed
     /\ call.ap \in ArchParams
     /\ InputsFit(call.pre, call.x))
    => (/\ ret.kind = "ok"
        /\ \E g \in [1..Len(built_ops) -> 0..(MaxLogit + 1)] :
             SameSum(ret.val,
                     Mixture(call.pre, ProbsOf(call.pre, call.ap, g), call.x)))

\* C7: forward on an unfixed mutable with no arch_param supplied returns
\* forward_all: every current candidate applied once, summed.
C7_NoParamIsForwardAll ==
    (/\ call.op = "forward"
     /\ ~call.pre.is_fixed
     /\ call.ap \in {Absent, NoParam}
     /\ forward_args = Unbound
     /\ InputsFit(call.pre, call.x))
    => (/\ ret.kind = "ok"
        /\ SameSum(ret.val, AllOnce(call.pre, call.x)))

\* C8: a DynaDiffOP weighted-mixture forward on an unfixed mutable with at
\* least 2 candidates fixes on the arg-max candidate when the top-2 gap
\* exceeds dyna_thresh, and leaves the mutable unfixed otherwise.
C8_AutoFixArgmax ==
    (/\ cls = "DynaDiffOP"
     /\ call.op = "forward"
     /\ ~call.pre.is_fixed
     /\ call.ap \in ArchParams
     /\ Len(call.pre.ops) >= 2)
    => LET p == softmax(call.ap)
           top == argmax([i \in DOMAIN p |-> p[i][1]])
       IN IF (Top1(p) - Top2(p)) * dyna_thresh_den > dyna_thresh_num * p[1][2]
          THEN is_fixed /\ candidate_ops = <<call.pre.ops[top]>>
          ELSE ~is_fixed /\ candidate_ops = call.pre.ops


\* a forward pass used, in every mutable of every group of the dict, the
\* candidate the dict names
Honoured(p) ==
    /\ p.out.kind = "ok"
    /\ \A g \in DOMAIN p.subnet \cap DOMAIN search_group :
         \A m \in Range(search_group[g]) : p.out.used[m] = p.subnet[g]

\* C9: mutator.set_subnet is transient: no trainer step marks a mutable
\* fixed or removes a candidate, and every forward pass of a step used, for
\* each group, the candidate named by the dict set right before that pass,
\* however many dicts the step applied one after the other.
C9_SetSubnetTransient ==
    [][ /\ DOMAIN supernet' = DOMAIN supernet
        /\ \A m \in DOMAIN supernet :
             /\ supernet'[m].candidate_ops = supernet[m].candidate_ops
             /\ supernet'[m].is_fixed = supernet[m].is_fixed
        /\ \A i \in DOMAIN passes' : Honoured(passes'[i]) ]_vars

\* a step that set two different dicts, each before its own forward pass
C9_Witness ==
    /\ t_call = "_forward_pairwise_loss"
    /\ Len(passes) = 2
    /\ \A g \in DOMAIN search_group : passes[1].subnet[g] # passes[2].subnet[g]
    /\ \A m \in DOMAIN supernet :
         passes[1].out.used[m] # passes[2].out.used[m]
    /\ \E m \in DOMAIN supernet : Len(supernet[m].candidate_ops) = 3

C11_PreparedOnce ==
    /\ prepare_calls = 1
    /\ first_sample_at \in {-1, 1}

\* C16: after compute_rank_consistency, compute_rank_by_zerometric or
\* compute_rank_based_on_nwot the generated-indicator list holds 0 for
\* every proxy score that is NaN or an infinity, and the score's own value
\* for every other score.
C16_SentinelZero ==
    e_call \in {"compute_rank_consistency", "compute_rank_by_zerometric",
                "compute_rank_based_on_nwot"} =>
      /\ Len(generated_indicator_list) = Len(drawn_scores)
      /\ \A i \in DOMAIN drawn_scores :
           LET g == generated_indicator_list[i]
               sc == drawn_scores[i]
           IN IF IsNanOrInf(sc) THEN g.k = "fin" /\ g.v = 0
              ELSE g.k = sc.k /\ g.v = sc.v


\* C14: in single_evaluate a scalar proxy score of +infinity reaches the
\* correlation computation as 1e9, one of -infinity as -1e9, and every
\* finite score as itself, for every test architecture.
C14_InfinityReplaced ==
    (corr_input # <<>> /\ ~zc_api[1].vec) =>
      /\ Len(corr_input.test_pred) = Len(zc_api)
      /\ \A i \in DOMAIN zc_api :
           LET sc == zc_api[i].vs[1]
               got == corr_input.test_pred[i]
           IN /\ sc = PInf => got = Elem(Fin(Big))
              /\ sc = NInf => got = Elem(Fin(-Big))
              /\ sc.k = "fin" => got = Elem(sc)

\* statistics computed on a table holding both infinities
C14_Witness ==
    /\ corr_input # <<>>
    /\ ~zc_api[1].vec
    /\ \E i, j \in DOMAIN zc_api : zc_api[i].vs[1] = PInf /\ zc_api[j].vs[1] = NInf
    /\ z_pc = "computed"

\* C15: every proxy score handed to the correlation computation is finite,
\* whatever the table yields (finite, an infinity, NaN, or a vector of them).
C15_CorrelationInputFinite ==
    corr_input # <<>> =>
      \A i \in DOMAIN corr_input.test_pred : corr_input.test_pred[i].k = "fin"

\* C17: with ensemble scores the array handed to the correlation
\* computation has one value per test architecture, the mean of that
\* architecture's scores, so it is as long as the true labels.
C17_EnsembleMeanPerArch ==
    (corr_input # <<>> /\ zc_api[1].vec) =>
      /\ Len(corr_input.test_pred) = Len(corr_input.ytest)
      /\ \A i \in DOMAIN zc_api :
           corr_input.test_pred[i] = MeanOf(zc_api[i].vs)

\* the stages of a whole evaluate
AllStages == <<"load", "fetch", "compute", "record", "persist">>

\* C18: evaluate finishes its stages in the order load, fetch, compute,
\* record, persist; the file is written only when the run's record is in
\* the results list, and the results are returned after the last stage.
C18_StageOrder ==
    /\ Len(z_stages) <= Len(AllStages)
    /\ z_stages = SubSeq(AllStages, 1, Len(z_stages))
    /\ z_pc # "idle" => z_stages # <<>> /\ z_pc = CASE z_stages[Len(z_stages)] = "load" -> "loaded"
                                                    [] z_stages[Len(z_stages)] = "fetch" -> "fetched"
                                                    [] z_stages[Len(z_stages)] = "compute" -> "computed"
                                                    [] z_stages[Len(z_stages)] = "record" -> "recorded"
                                                    [] OTHER -> "persisted"
    /\ (z_stages # <<>> /\ z_stages[Len(z_stages)] = "persist") =>
         /\ results[Len(results)].query_time.v = z_calls + (IF z_pc = "idle" THEN 0 ELSE 1)
         /\ scores_json = results
    /\ (z_pc = "idle" /\ z_ret = "results") =>
         z_stages = SubSeq(AllStages, 1, IF log_results_to_json THEN 5 ELSE 4)

\* a second evaluate returned after writing the file
C18_Witness ==
    /\ z_pc = "idle"
    /\ z_ret = "results"
    /\ z_calls = 2
    /\ z_stages = AllStages

NativeTypes == {"int", "float", "str", "bool"}

C12_StepSetsSubnet ==
    \A n \in DOMAIN train_events.steps :
      LET step == train_events.steps[n]
          At(e) == CHOOSE i \in DOMAIN step : step[i] = e
      IN /\ {"set_subnet", "zero_grad", "model_forward", "backward",
             "optimizer_step"} \subseteq Range(step)
         /\ At("set_subnet") < At("model_forward")
         /\ At("zero_grad") < At("model_forward")
         /\ At("model_forward") < At("backward")
         /\ At("backward") < At("optimizer_step")

\* what epoch e does, in order
EpochStages(e) ==
    <<"train", "validate">> \o (IF e % 10 = 0 THEN <<"save">> ELSE <<>>)
        \o <<"append", "sched">>

\* the epochs below n at which a checkpoint is due
DueCheckpoints(n) == {e \in 0..(n - 1) : e % 10 = 0}

C20_PoliciesYieldValidDicts ==
    /\ p_call.op = "policy_sampler" => p_ret.kind = "ok" /\ Len(p_ret.dicts) = 1
    /\ p_ret.kind = "ok" =>
         \A i \in DOMAIN p_ret.dicts :
           /\ DOMAIN p_ret.dicts[i] = DOMAIN search_group
           /\ \A g \in DOMAIN search_group :
                p_ret.dicts[i][g] \in Range(GroupChoices(supernet, search_group, g))

\* C21: forward_fixed on a mutable that no fix_chosen has fixed (neither a
\* direct call nor the auto-fix of DynaDiffOP) raises and returns no value,
\* for each of the four classes, and leaves the mutable as it was.
C21_UnfixedForwardFixedRaises ==
    (call.op = "forward_fixed" /\ fixed_by = "none")
    => (/\ ret.kind = "raise"
        /\ ret.val = <<>>
        /\ Self = call.pre)

C21_Witness ==
    /\ call.op = "forward_fixed"
    /\ fixed_by = "none"
    /\ cls = "DynaDiffOP"
    /\ Len(built_ops) = 3
    /\ ret.kind = "raise"

\* C23: sample_choice(arch_param) returns the name of the candidate at the
\* first position of the largest arch_param entry, that name is one of the
\* mutable's current choices, the same arch_param gives the same name (the
\* result is a function of arch_param and the choices alone), and the call
\* changes nothing of the mutable.
C23_SampleChoiceArgmax ==
    (call.op = "sample_choice")
    => (/\ ret.kind = "ok"
        /\ argmax(call.ap) \in DOMAIN call.pre.ops
        /\ ret.val = <<call.pre.ops[argmax(call.ap)]>>
        /\ ret.val[1] \in Range(candidate_ops)
        /\ ret = DiffOP_sample_choice(Self, call.ap)
        /\ Self = call.pre)

\* the route as fix_chosen(c) leaves it when called on the route as built
RouteFixedWith(self, c) ==
    Route_fix_chosen([self EXCEPT !.ops = built_ops, !.is_fixed = FALSE,
                                  !.chosen = None, !.unfixed_choices = None],
                     c).self

\* e(x_i) for every edge e of `chosen`, i the position of e among the
\* edges the route was built with
ChosenAtOwnPosition(c, x) ==
    LET idx == SelectSeq([i \in 1..Len(built_ops) |-> i],
                         LAMBDA i : built_ops[i] \in Range(c.v))
    IN [j \in DOMAIN idx |-> Term(One, built_ops[idx[j]], x[idx[j]])]

C28_RejectedFixLeavesState ==
    (call.op = "fix_chosen" /\ call.pre.is_fixed /\ ret.kind = "raise")
    => Self = call.pre

\* C29: the DynaDiffOP forward pass that fixes the mutable returns
\* p_c * op_c(x): c the candidate just fixed, p_c the probability softmax
\* gave to c at c's position among the candidates before the pruning.
C29_AutoFixKeepsOwnProb ==
    (/\ cls = "DynaDiffOP"
     /\ call.op \in {"forward", "forward_arch_param"}
     /\ call.ap \in ArchParams
     /\ ~call.pre.is_fixed
     /\ is_fixed)
    => LET p == compute_arch_probs(call.ap)
           c == chosen.v[1]
       IN /\ ret.kind = "ok"
          /\ \E k \in DOMAIN call.pre.ops :
               /\ call.pre.ops[k] = c
               /\ SameSum(ret.val, <<Term(Norm(p[k]), c, call.x)>>)

\* C22: a constructor of one of the four classes called with an empty
\* candidate / edge set raises and yields no mutable; called with a
\* non-empty set it returns an unfixed mutable whose choices are exactly the
\* given names in the given order.
C22_ConstructNonEmpty ==
    (call.op = "__init__")
    => IF call.chosen.v = <<>>
       THEN /\ ret.kind = "raise"
            /\ cls = "none"
       ELSE /\ ret.kind = "ok"
            /\ cls = call.pre.cls
            /\ ~is_fixed
            /\ chosen = None
            /\ candidate_ops = call.chosen.v

C22_Witness ==
    /\ call.op = "__init__"
    /\ call.chosen.v = <<>>
    /\ call.pre.cls = "GumbelChoiceRoute"
    /\ ret = Raise("AssertionError")
    /\ cls = "none"

\* C30: _generate_fair_lists returns, for the search group it is given, as
\* many dicts as a group has candidates, and over the returned list every
\* candidate of every group is selected exactly once.
C30_StrictFairness ==
    (p_call.op = "_generate_fair_lists")
    => (/\ p_ret.kind = "ok"
        /\ \A g \in DOMAIN search_group :
             LET choices == GroupChoices(supernet, search_group, g)
             IN /\ Len(p_ret.dicts) = Len(choices)
                /\ \A c \in Range(choices) :
                     Cardinality({i \in DOMAIN p_ret.dicts :
                                     p_ret.dicts[i][g] = c}) = 1)

\* C25: in compute_rank_consistency every batch that metric_score(dataloader,
\* subnet_dict) evaluates runs the supernet with exactly subnet_dict
\* selected, for NB201Trainer and NB201_Balance_Trainer, searching or not.
C25_ScoreOfTheSubnet ==
    (t_call = "metric_score")
    => (/\ Len(passes) = loader_len
        /\ \A i \in DOMAIN passes : Honoured(passes[i]))

\* C27: generate_genotype is determined by the subnet dict: two samples of a
\* rank computation whose dicts differ in some group have different
\* genotypes.
C27_GenotypeOfTheSubnet ==
    \A i, j \in DOMAIN r_samples :
        r_samples[i].subnet # r_samples[j].subnet
        => r_samples[i].genotype # r_samples[j].genotype

\* C26: load_dataset returns exactly data_size entries, and entry i is the
\* hash of the architecture sampled in iteration i paired with the table's
\* val_accuracy under that hash, with load_labeled true and false.
C26_LoadedPairs ==
    (l_call.op = "load_dataset")
    => (/\ l_ret.kind = "ok"
        /\ Len(l_ret.xdata) = l_call.data_size
        /\ Len(l_ret.ydata) = l_call.data_size
        /\ \A i \in 1..l_call.data_size :
             /\ l_ret.xdata[i] = l_call.sampled[i]
             /\ l_ret.ydata[i] = val_accuracy(l_ret.xdata[i]))

====
